---- MODULE Spec2Model ----
(***************************************************************************)
(* Connection lifecycle of createMcp (the Svelte store factory of use-mcp).*)
(*                                                                         *)
(* JavaScript runs one handler at a time, so every action below is one run *)
(* of a handler from its entry (a public method, a timer or transport      *)
(* callback, a window message, or the resumption of an `await`) to the     *)
(* next `await` or to its end.  The handlers themselves are operators on a *)
(* record of the store's fields, applied in the order of the statements of *)
(* the source.                                                             *)
(***************************************************************************)
EXTENDS Integers, Sequences, FiniteSets, Bags, TLC

\* ------------------------------------------------------------------ bounds
MaxConnects == 2    \* connect sequences started since construction
MaxAppends == 103   \* log entries appended since construction (SpecLog)
MaxSequences == 3   \* connect sequences started since construction (SpecTransports)
MaxAttempts == 1    \* connect sequences started since construction (SpecSettles)

\* --------------------------------------------------------------- constants
debug == FALSE
LogRetention == 100 \* current.log.slice(-100)
isBrowser == TRUE

States == {"discovering", "pending_auth", "authenticating", "connecting",
           "loading", "ready", "failed"}
TransportType == {"http", "sse"}
RequestMethods == {"callTool", "listResources", "readResource", "listPrompts", "getPrompt"}

NoError == <<>>
Err(tag, kind) == <<tag, kind>>
NoThrow == <<>>

\* what the server may answer
ToolsResponses == {<<"t1">>}
ResourcesResponses == {[resources |-> <<"r1">>, resourceTemplates |-> <<"rt1">>, isArray |-> TRUE]}
PromptsResponses == {<<"p1">>}
NoResources == [resources |-> <<>>, resourceTemplates |-> <<>>, isArray |-> TRUE]

\* the options the store is created with, <<url, transportType, preventAutoAuth,
\* autoRetry, autoReconnect>>: every transportType, preventAutoAuth on and off,
\* retry and reconnect on and off, and one url that does not parse
Options ==
  {<<"valid", "auto", FALSE, TRUE, TRUE>>,
   <<"valid", "http", FALSE, TRUE, TRUE>>,
   <<"valid", "sse", FALSE, FALSE, FALSE>>,
   <<"valid", "auto", TRUE, TRUE, FALSE>>,
   <<"malformed", "auto", FALSE, TRUE, TRUE>>}

VARIABLES
  \* options of createMcp (fixed for the lifetime of the store)
  url, transportType, preventAutoAuth, autoRetry, autoReconnect,
  \* internal mutable refs
  client,                  \* TRUE iff `client` is not null
  transport,               \* "null", or the referenced instance: "open" / "closed" (close() invoked)
  authProvider,            \* TRUE iff `authProvider` is not null
  connecting, isMounted, connectAttempt,
  authTimeout,             \* "none", or the callback of the pending timer: "fail" / "noop"
  staleAuthTimers,         \* pending auth timers whose handle was overwritten
  autoRetryTimer,          \* TRUE iff an auto-retry timer is pending
  reconnectTimers,         \* pending (untracked) reconnect timers of onclose
  stateRef,
  current,                 \* the published snapshot, without its log
  \* environment
  procs,                   \* bag of async functions suspended at an await
  wired,                   \* kinds of the transport instances whose callbacks were attached
  lastAuthUrl,             \* TRUE iff the provider has a last attempted auth URL
  connects,                \* connect sequences started since construction
  orphans,                 \* transports created, not closed and no longer referenced
  \* observer of the first events after construction
  scn,                     \* the events so far, while they follow a scenario of Scenarios
  trace,                   \* the distinct states published so far, while scn is followed
  \* the published log (followed in SpecLog only)
  log,                     \* current.log: entries <<level, message, number of the append>>
  appended                 \* log entries appended since construction

opts == <<url, transportType, preventAutoAuth, autoRetry, autoReconnect>>
refs == <<client, transport, authProvider, connecting, isMounted, connectAttempt,
          authTimeout, staleAuthTimers, autoRetryTimer, reconnectTimers, stateRef>>
env == <<procs, wired, lastAuthUrl, connects, orphans>>
observer == <<scn, trace>>
logged == <<log, appended>>
vars == <<opts, refs, current, env, observer, logged>>

autoReconnectRef == autoReconnect

initialValue ==
  [state |-> "discovering", tools |-> <<>>, resources |-> <<>>,
   resourceTemplates |-> <<>>, prompts |-> <<>>,
   error |-> NoError, authUrl |-> "undefined"]

Off == <<<<"off">>>>

\* ------------------------------------------------- the store as one record
\* The fields of the store, and what a handler run does besides changing them:
\*   ev         the handler and its input
\*   console    the entries it wrote to the console
\*   log        the entries it appended to current.log
\*   published  the values it published for current.state, in order
\*   snapshots  the snapshots it published, in order
\*   requests   the requests it issued on the RPC client
\*   thrown     the error it threw to its caller
\*   started    the connect sequences it started
\*   closes     the transport close() calls it made
Cur ==
  [client |-> client, transport |-> transport, authProvider |-> authProvider,
   connecting |-> connecting, isMounted |-> isMounted, connectAttempt |-> connectAttempt,
   authTimeout |-> authTimeout, staleAuthTimers |-> staleAuthTimers,
   autoRetryTimer |-> autoRetryTimer,
   reconnectTimers |-> reconnectTimers, stateRef |-> stateRef,
   current |-> current,
   procs |-> procs, wired |-> wired, lastAuthUrl |-> lastAuthUrl, connects |-> connects,
   orphans |-> orphans,
   trace |-> trace, tracking |-> (scn # Off), overflow |-> FALSE,
   ev |-> <<>>, console |-> <<>>, log |-> <<>>, published |-> <<>>, snapshots |-> <<>>,
   requests |-> <<>>,
   thrown |-> NoThrow, started |-> 0, closes |-> 0]

\* the store at the entry of handler e
Begin(e) == [Cur EXCEPT !.ev = e]

IsPrefix(a, b) == Len(a) <= Len(b) /\ SubSeq(b, 1, Len(a)) = a

\* ------------------------------------------------------------ small helpers
Proc(fn, pc, kind, tried) ==
  [fn |-> fn, pc |-> pc, kind |-> kind, tried |-> tried,
   tools |-> <<>>, res |-> NoResources]

\* the async function p suspends at an await
spawn(s, p) ==
  [s EXCEPT !.procs = @ (+) SetToBag({p})]

Patch(rec, patch) ==
  [f \in DOMAIN rec |-> IF f \in DOMAIN patch THEN patch[f] ELSE rec[f]]

\* ------------------------------------------------- authorization provider
\* the provider remembers the URL of the last authorization it prepared
providerAuth(s, r) == [s EXCEPT !.lastAuthUrl = @ \/ r = "REDIRECT"]
providerPrepareAuthorizationUrl(s, ok) == [s EXCEPT !.lastAuthUrl = @ \/ ok]
providerClearStorage(s) == [s EXCEPT !.lastAuthUrl = FALSE]

\* ------------------------------------------------------------------ logging
addLog(s, level, message) ==
  IF level = "debug" /\ ~debug THEN s
  ELSE LET s1 == [s EXCEPT !.console = Append(@, <<level, message>>)] IN
       IF ~s1.isMounted THEN s1
       ELSE [s1 EXCEPT !.log = Append(@, <<level, message>>)]

setValue(s, patch) ==
  LET hasState == "state" \in DOMAIN patch IN
  [s EXCEPT !.current = Patch(@, patch),
            !.snapshots = Append(@, Patch(s.current, patch)),
            !.published = IF hasState THEN Append(@, patch.state) ELSE @,
            !.trace = IF hasState /\ s.tracking /\ patch.state # @[Len(@)]
                      THEN Append(@, patch.state) ELSE @]

scheduleAutoRetryIfNeeded_Always(s) ==
  LET s1 == [s EXCEPT !.autoRetryTimer = FALSE] IN
  IF autoRetry /\ s1.connectAttempt > 0
  THEN [addLog(s1, "info", "Connection failed, auto-retrying") EXCEPT !.autoRetryTimer = TRUE]
  ELSE s1

scheduleAutoRetryIfNeeded(s) ==
  LET s1 == [s EXCEPT !.autoRetryTimer = FALSE] IN
  IF s1.stateRef = "failed" /\ autoRetry /\ s1.connectAttempt > 0
  THEN [addLog(s1, "info", "Connection failed, auto-retrying") EXCEPT !.autoRetryTimer = TRUE]
  ELSE s1

setState(s, state) ==
  scheduleAutoRetryIfNeeded(setValue([s EXCEPT !.stateRef = state], [state |-> state]))

clearAuthTimeout(s) == [s EXCEPT !.authTimeout = "none"]

\* authTimeout = setTimeout(cb, ...): a timer still pending under the handle
\* stays pending with nothing left to cancel it
armAuthTimeout(s, cb) ==
  [s EXCEPT !.authTimeout = cb,
            !.staleAuthTimers = IF s.authTimeout # "none" THEN @ + 1 ELSE @]

\* a disconnect that publishes the state and keeps the lists
doDisconnect_KeepsLists(s, quiet) ==
  LET s1 == IF ~quiet THEN addLog(s, "info", "Disconnecting...") ELSE s
      s2 == clearAuthTimeout([s1 EXCEPT !.connecting = FALSE])
      t == s2.transport
      s3 == [s2 EXCEPT !.client = FALSE, !.transport = "null"]
      s4 == IF s3.isMounted /\ ~quiet
            THEN setValue(s3, [state |-> "discovering",
                               error |-> NoError, authUrl |-> "undefined"])
            ELSE s3
  IN IF t # "null" THEN [s4 EXCEPT !.closes = @ + 1] ELSE s4

\* doDisconnect up to `await t.close()`; what follows only logs (doDisconnectClosed)
doDisconnect(s, quiet) ==
  LET s1 == IF ~quiet THEN addLog(s, "info", "Disconnecting...") ELSE s
      s2 == clearAuthTimeout([s1 EXCEPT !.connecting = FALSE])
      t == s2.transport
      s3 == [s2 EXCEPT !.client = FALSE, !.transport = "null"]
      s4 == IF s3.isMounted /\ ~quiet
            THEN setValue(s3, [state |-> "discovering", tools |-> <<>>, resources |-> <<>>,
                               resourceTemplates |-> <<>>, prompts |-> <<>>,
                               error |-> NoError, authUrl |-> "undefined"])
            ELSE s3
  IN IF t # "null" THEN [s4 EXCEPT !.closes = @ + 1] ELSE s4

\* line 146: t.close() resolved (ok) or rejected
doDisconnectClosed(s, quiet, ok) ==
  IF quiet THEN s
  ELSE IF ok THEN addLog(s, "debug", "Transport closed")
  ELSE addLog(s, "warn", "Error closing transport:")

\* `failed` is published without its error
failConnection_NoError(s, errorMessage) ==
  LET s1 == addLog(s, "error", errorMessage[1])
      s2 == IF s1.isMounted THEN setValue(s1, [state |-> "failed"]) ELSE s1
  IN [s2 EXCEPT !.connecting = FALSE]

failConnection(s, errorMessage) ==
  LET s1 == addLog(s, "error", errorMessage[1])
      s2 == IF s1.isMounted
            THEN LET a == setValue(s1, [state |-> "failed", error |-> errorMessage]) IN
                 IF a.lastAuthUrl
                 THEN addLog(setValue(a, [authUrl |-> "last"]), "info",
                             "Manual authentication URL may be available.")
                 ELSE a
            ELSE s1
  IN [s2 EXCEPT !.connecting = FALSE]

\* --------------------------------------------------------------- connect()
\* a fallback after any failed leg, whatever the transportType
needsFallback_OnFailure(tried, result, mounted, sref) ==
  /\ Len(tried) < 3
  /\ result = "failed"
  /\ mounted

\* lines 352-354: is the SSE leg tried after the first leg returned `result`
needsFallback(tried, result, mounted, sref) ==
  /\ transportType = "auto"
  /\ tried = <<"http">>
  /\ result = "fallback"
  /\ mounted
  /\ sref # "authenticating"

RECURSIVE tryConnectWithTransport(_, _, _)
RECURSIVE createTransport(_, _)
RECURSIVE connectCatch(_, _, _)
RECURSIVE connectReturn(_, _, _)

\* connect() from the return of tryConnectWithTransport to its end
connectReturn(s, p, result) ==
  IF needsFallback(p.tried, result, s.isMounted, s.stateRef)
  THEN tryConnectWithTransport(addLog(s, "info", "HTTP failed, attempting SSE fallback..."),
                               "sse", p.tried)
  ELSE LET s1 == IF result \in {"success", "failed"}
                 THEN [s EXCEPT !.connecting = FALSE] ELSE s
       IN addLog(s1, "debug", "Connection sequence finished")

\* the catch block of tryConnectWithTransport, up to its await or return
connectCatch(s, p, err) ==
  LET s1 == addLog(s, "warn", "Error during connect") IN
  IF err = "unauthorized"
  THEN IF preventAutoAuth
       THEN spawn(setState(s1, "pending_auth"), [p EXCEPT !.pc = "prepare"])
       ELSE LET s2 == setState(s1, "authenticating")
                s3 == armAuthTimeout(clearAuthTimeout(s2), "fail")
            IN spawn(s3, [p EXCEPT !.pc = "auth"])
  ELSE connectReturn(failConnection(s1, Err("Failed to connect via", p.kind)), p, "failed")

\* tryConnectWithTransport from the creation of the transport to
\* `await client.connect(transportInstance)`
createTransport(s, p) ==
  IF url = "malformed"
  THEN connectReturn(failConnection(s, Err("Failed to create transport", p.kind)), p, "failed")
  ELSE LET s1 == [s EXCEPT !.transport = "open", !.wired = @ \cup {p.kind},
                           !.orphans = IF s.transport = "open" THEN @ + 1 ELSE @]
           s2 == addLog(s1, "info", "Connecting client via")
       IN IF s2.client
          THEN spawn(s2, [p EXCEPT !.pc = "handshake"])
          ELSE connectCatch(s2, p, "typeerror")

\* tryConnectWithTransport from its entry to its first await
tryConnectWithTransport(s, kind, tried) ==
  LET s1 == addLog(s, "info", "Attempting connection with transport")
      s2 == IF s1.stateRef # "authenticating" THEN setState(s1, "connecting") ELSE s1
      p == Proc("connect", "close", kind, Append(tried, kind))
  IN IF ~s2.authProvider \/ ~s2.client
     THEN connectReturn(failConnection(s2, Err("Failed to create transport", kind)), p, "failed")
     ELSE IF s2.transport # "null"
          THEN spawn([s2 EXCEPT !.transport = "closed", !.closes = @ + 1], p)
          ELSE createTransport(s2, p)

connect(s) ==
  IF s.connecting THEN addLog(s, "debug", "Connection attempt already in progress.")
  ELSE IF ~isBrowser THEN addLog(s, "debug", "Not in browser; skipping connect.")
  ELSE IF ~s.isMounted THEN addLog(s, "debug", "Connect called before mount; aborting.")
  ELSE LET s1 == [s EXCEPT !.connecting = TRUE,
                           !.connectAttempt = @ + 1,
                           !.started = @ + 1,
                           !.connects = @ + 1,
                           !.overflow = @ \/ s.connects >= MaxConnects]
           s2 == setValue(s1, [error |-> NoError, authUrl |-> "undefined"])
           s3 == setState(s2, "discovering")
           s4 == addLog(s3, "info", "Connecting attempt")
           s5 == [s4 EXCEPT !.authProvider = TRUE, !.client = TRUE]
       IN tryConnectWithTransport(s5, IF transportType = "sse" THEN "sse" ELSE "http", <<>>)

\* ---------------------------------------------- resumptions inside connect()
\* the lists are published without asking whether the store is mounted
publishReady_Unguarded(s, p, promptsResponse) ==
  LET s1 == addLog(setValue(s, [tools |-> p.tools,
                                resources |-> p.res.resources,
                                resourceTemplates |-> IF p.res.isArray
                                                      THEN p.res.resourceTemplates
                                                      ELSE <<>>,
                                prompts |-> promptsResponse,
                                state |-> "ready"]),
                   "info", "Ready.")
  IN [s1 EXCEPT !.connecting = FALSE]

\* lines 277-287: the lists are published and tryConnectWithTransport returns
publishReady(s, p, promptsResponse) ==
  LET s1 == IF s.isMounted
            THEN addLog(setValue(s, [tools |-> p.tools,
                                     resources |-> p.res.resources,
                                     resourceTemplates |-> IF p.res.isArray
                                                           THEN p.res.resourceTemplates
                                                           ELSE <<>>,
                                     prompts |-> promptsResponse,
                                     state |-> "ready"]),
                        "info", "Ready.")
            ELSE s
  IN connectReturn(s1, p, "success")

\* line 275: prompts/list is requested (a null client throws into the inner catch)
requestPrompts(s, p) ==
  IF s.client
  THEN spawn([s EXCEPT !.requests = Append(@, "prompts/list")], [p EXCEPT !.pc = "prompts"])
  ELSE publishReady(addLog(s, "debug", "Server does not support prompts/list method"), p, <<>>)

\* line 273
requestResources(s, p) ==
  IF s.client
  THEN spawn([s EXCEPT !.requests = Append(@, "resources/list")], [p EXCEPT !.pc = "resources"])
  ELSE requestPrompts(addLog(s, "debug", "Server does not support resources/list method"), p)

\* lines 266-271: r is the outcome of client.connect(transportInstance)
handshakeDone(s, p, r) ==
  IF r = "ok"
  THEN LET s1 == addLog(s, "info", "Client connected. Loading tools, resources, and prompts...")
           s2 == setState(s1, "loading")
       IN IF s2.client
          THEN spawn([s2 EXCEPT !.requests = Append(@, "tools/list")], [p EXCEPT !.pc = "tools"])
          ELSE connectCatch(s2, p, "typeerror")
  ELSE connectCatch(s, p, r)

\* lines 214-233: previous transport closed (ok) or its close() rejected
closeDone(s, p, ok) ==
  LET s1 == IF ok THEN s ELSE addLog(s, "warn", "Error closing previous transport")
      \* `transport = null` drops whatever is referenced by now
      s2 == IF s1.transport = "open" THEN [s1 EXCEPT !.orphans = @ + 1] ELSE s1
  IN createTransport([s2 EXCEPT !.transport = "null"], p)

\* the prepared URL is published and the in-flight flag is kept
prepareDone_KeepsFlag(s, p, ok) ==
  IF ok
  THEN connectReturn(addLog(setValue(s, [authUrl |-> "prepared"]),
                            "info", "Authentication required. Manual URL prepared"),
                     p, "auth_redirect")
  ELSE connectReturn(failConnection(s, Err("Failed to prepare authorization URL", "none")),
                     p, "failed")

\* lines 299-309: r is the outcome of prepareAuthorizationUrl
prepareDone(s, p, ok) ==
  IF ok
  THEN connectReturn(addLog(setValue(s, [authUrl |-> "prepared"]),
                            "info", "Authentication required. Manual URL prepared"),
                     p, "failed")
  ELSE connectReturn(failConnection(s, Err("Failed to prepare authorization URL", "none")),
                     p, "failed")

\* an authorized result waits for the callback like a redirect
connectAuthDone_WaitsForCallback(s, p, r) ==
  IF ~s.isMounted THEN connectReturn(s, p, "failed")
  ELSE IF r = "error"
  THEN connectReturn(failConnection(clearAuthTimeout(s),
                                    Err("Failed to initiate authentication", "none")),
                     p, "failed")
  ELSE connectReturn(addLog(s, "info", "Redirecting for authentication. Waiting for callback..."),
                     p, "auth_redirect")

\* lines 321-339: r is the outcome of auth(authProvider, ...)
connectAuthDone(s, p, r) ==
  IF ~s.isMounted THEN connectReturn(s, p, "failed")
  ELSE IF r = "error"
  THEN connectReturn(failConnection(clearAuthTimeout(s),
                                    Err("Failed to initiate authentication", "none")),
                     p, "failed")
  ELSE IF r = "AUTHORIZED"
  THEN LET s1 == addLog(s, "info", "Authentication successful. Re-attempting connection...")
           s2 == [clearAuthTimeout(s1) EXCEPT !.connecting = FALSE]
       IN connectReturn(connect(s2), p, "failed")
  ELSE connectReturn(addLog(s, "info", "Redirecting for authentication. Waiting for callback..."),
                     p, "auth_redirect")

\* ----------------------------------------------------------- public methods
\* a readiness guard that only looks at the client
request_NoStateGuard(s, method) ==
  IF ~s.client
  THEN [s EXCEPT !.thrown = <<"MCP client is not ready", s.current.state>>]
  ELSE spawn([addLog(s, "info", method) EXCEPT !.requests = Append(@, method)],
             Proc(method, "request", "none", <<>>))

\* lines 366-372 (and 411-417, 431-437, 446-452, 463-469): the readiness guard
\* and the request
request(s, method) ==
  IF s.stateRef # "ready" \/ ~s.client
  THEN [s EXCEPT !.thrown = <<"MCP client is not ready", s.current.state>>]
  ELSE spawn([addLog(s, "info", method) EXCEPT !.requests = Append(@, method)],
             Proc(method, "request", "none", <<>>))

\* lines 375-388: the tools/call request of callTool was rejected with err
callToolCatch(s, err) ==
  LET s1 == addLog(s, "error", "Error calling tool") IN
  IF err = "unauthorized"
  THEN LET s2 == addLog(s1, "warn", "Tool call unauthorized, attempting re-authentication...")
           s3 == setState(s2, "authenticating")
           s4 == armAuthTimeout(clearAuthTimeout(s3), "noop")
       IN IF s4.authProvider
          THEN spawn(s4, Proc("callTool", "auth", "none", <<>>))
          ELSE IF ~s4.isMounted THEN s4
          ELSE LET s5 == failConnection(clearAuthTimeout(s4),
                                        Err("Re-authentication failed", "none"))
               IN IF s5.current.state # "authenticating"
                  THEN [s5 EXCEPT !.thrown = <<"tools/call failed", err>>] ELSE s5
  ELSE IF s1.current.state # "authenticating"
  THEN [s1 EXCEPT !.thrown = <<"tools/call failed", err>>]
  ELSE s1

\* the catch blocks of the request methods (lines 375-408, 425-428, 440-443,
\* 457-460, 472-475): the request of `method` was rejected with err
requestCatch(s, method, err) ==
  IF method = "callTool" THEN callToolCatch(s, err)
  ELSE [addLog(s, "error", "Error in request") EXCEPT !.thrown = <<"request failed", err>>]

\* lines 389-407: r is the outcome of auth(authProvider, ...) in callTool; the
\* call resolves with undefined unless it throws the error of the request
callToolAuthDone(s, r) ==
  IF ~s.isMounted THEN s
  ELSE LET s1 == IF r = "error"
                 THEN failConnection(clearAuthTimeout(s), Err("Re-authentication failed", "none"))
                 ELSE IF r = "AUTHORIZED"
                 THEN connect([clearAuthTimeout(addLog(s, "info",
                                 "Re-authentication successful. Reconnecting..."))
                                 EXCEPT !.connecting = FALSE])
                 ELSE addLog(s, "info", "Redirecting for re-authentication for tool call.")
       IN IF s1.current.state # "authenticating"
          THEN [s1 EXCEPT !.thrown = <<"tools/call failed", "unauthorized">>]
          ELSE s1

\* a retry that reconnects whatever the state
retry_Unconditional(s) == connect(addLog(s, "info", "Retry requested..."))

retry(s) ==
  IF s.stateRef = "failed"
  THEN connect(addLog(s, "info", "Retry requested..."))
  ELSE addLog(s, "warn", "Retry called but state is not 'failed'. Ignoring.")

authenticate(s) ==
  LET s1 == addLog(s, "info", "Manual authentication requested...")
      st == s1.stateRef
  IN IF st = "failed"
     THEN retry(addLog(s1, "info", "Attempting to reconnect and authenticate via retry..."))
     ELSE IF st = "pending_auth"
     THEN LET s2 == setState(s1, "authenticating")
              s3 == armAuthTimeout(clearAuthTimeout(s2), "noop")
          IN spawn(s3, Proc("authenticate", "auth", "none", <<>>))
     ELSE IF st = "authenticating"
     THEN addLog(s1, "warn", "Already attempting authentication.")
     ELSE IF st = "ready"
     THEN addLog(s1, "info", "Already authenticated and connected.")
     ELSE connect(addLog(s1, "warn", "Authentication requested. Will attempt connect -> auth."))

\* the result of the auth operation is not looked at
authenticateAuthDone_IgnoresResult(s, r) == s

\* lines 499-514
authenticateAuthDone(s, r) ==
  IF ~s.isMounted THEN s
  ELSE IF r = "error"
  THEN failConnection(clearAuthTimeout(s), Err("Manual authentication failed", "none"))
  ELSE IF r = "AUTHORIZED"
  THEN LET s1 == addLog(s, "info", "Manual authentication successful. Re-attempting connection...")
       IN connect([clearAuthTimeout(s1) EXCEPT !.connecting = FALSE])
  ELSE addLog(s, "info", "Redirecting for manual authentication. Waiting for callback...")

\* the storage is cleared and the session is kept
clearStorage_KeepsSession(s) ==
  IF s.authProvider
  THEN LET s1 == addLog(providerClearStorage(s), "info", "Cleared item(s) from localStorage")
       IN setValue(s1, [authUrl |-> "undefined"])
  ELSE addLog(s, "warn", "Auth provider not initialized, cannot clear storage.")

clearStorage(s) ==
  IF s.authProvider
  THEN LET s1 == addLog(providerClearStorage(s), "info", "Cleared item(s) from localStorage")
       IN doDisconnect(setValue(s1, [authUrl |-> "undefined"]), FALSE)
  ELSE addLog(s, "warn", "Auth provider not initialized, cannot clear storage.")

\* ---------------------------------------------------------------- callbacks
onerror(s, kind) ==
  failConnection(addLog(s, "warn", "Transport error event"), Err("Transport error", kind))

onclose(s) ==
  IF ~s.isMounted \/ s.connecting THEN s
  ELSE LET s1 == addLog(s, "info", "Transport connection closed")
           currentState == s1.stateRef
           ar == autoReconnectRef
       IN IF currentState = "ready" /\ ar
          THEN [setState(addLog(s1, "info", "Attempting to reconnect"), "connecting")
                  EXCEPT !.reconnectTimers = @ + 1]
          ELSE IF currentState # "failed" /\ currentState # "authenticating"
          THEN failConnection(s1, Err("Connection closed unexpectedly.", "none"))
          ELSE s1

\* an auth timer whose callback is empty, like those of callTool and authenticate
authTimeoutFired_Noop(s) == [s EXCEPT !.authTimeout = "none"]

\* lines 314-317: the timer armed by tryConnectWithTransport; the timers armed
\* by callTool and authenticate have an empty callback
authTimeoutFired(s) ==
  LET s1 == [s EXCEPT !.authTimeout = "none"] IN
  IF s.authTimeout = "fail" /\ s1.isMounted
  THEN failConnection(s1, Err("Authentication timed out. Please try again.", "none"))
  ELSE s1

\* a callback handler that reconnects after a failure too
messageHandler_RetriesOnFailure(s, origin, type, success) ==
  IF origin # "same" THEN s
  ELSE IF type # "mcp_auth_callback" THEN s
  ELSE LET s1 == clearAuthTimeout(addLog(s, "info", "Received auth callback message.")) IN
       connect([addLog(s1, "info", "Authentication successful via popup. Reconnecting client...")
                  EXCEPT !.connecting = FALSE])

\* a callback handler that does not look at the origin
messageHandler_AnyOrigin(s, origin, type, success) ==
  IF type # "mcp_auth_callback" THEN s
  ELSE LET s1 == clearAuthTimeout(addLog(s, "info", "Received auth callback message.")) IN
       IF success = "true"
       THEN connect([addLog(s1, "info", "Authentication successful via popup. Reconnecting client...")
                       EXCEPT !.connecting = FALSE])
       ELSE failConnection(s1, Err("Authentication failed in callback", "none"))

\* a callback handler that leaves the in-flight flag set
messageHandler_KeepsFlag(s, origin, type, success) ==
  IF origin # "same" THEN s
  ELSE IF type # "mcp_auth_callback" THEN s
  ELSE LET s1 == clearAuthTimeout(addLog(s, "info", "Received auth callback message.")) IN
       IF success = "true"
       THEN connect(addLog(s1, "info", "Authentication successful via popup. Reconnecting client..."))
       ELSE failConnection(s1, Err("Authentication failed in callback", "none"))

messageHandler(s, origin, type, success) ==
  IF origin # "same" THEN s
  ELSE IF type # "mcp_auth_callback" THEN s
  ELSE LET s1 == clearAuthTimeout(addLog(s, "info", "Received auth callback message.")) IN
       IF success = "true"
       THEN connect([addLog(s1, "info", "Authentication successful via popup. Reconnecting client...")
                       EXCEPT !.connecting = FALSE])
       ELSE failConnection(s1, Err("Authentication failed in callback", "none"))

\* the readable's start function, lines 539-576
start(s) ==
  LET s1 == [s EXCEPT !.isMounted = TRUE]
      s2 == addLog(s1, "debug", "createMcp mounted, initiating connection.")
      s3 == [s2 EXCEPT !.connectAttempt = 0, !.authProvider = TRUE]
  IN connect(s3)

\* the readable's stop function, lines 578-584
stop(s) ==
  LET s1 == clearAuthTimeout([s EXCEPT !.isMounted = FALSE])
  IN doDisconnect([s1 EXCEPT !.autoRetryTimer = FALSE], TRUE)

\* ----------------------------------------------------------------- observer
EvMount == <<"Mount">>
EvHandshake(r) == <<"HandshakeDone", r>>
EvAuth(r) == <<"AuthDone", r>>
EvMessage(origin, type, success) == <<"Message", origin, type, success>>
EvClose(ok) == <<"CloseDone", ok>>
EvTools(r) == <<"ToolsDone", r>>
EvResources(r) == <<"ResourcesDone", r>>
EvPrompts(r) == <<"PromptsDone", r>>
EvRequest(method) == <<"Request", method>>
EvRetry == <<"Retry">>

\* connect, load the three lists
ScnReady ==
  <<EvMount, EvHandshake("ok"), EvTools("ok"), EvResources("ok"), EvPrompts("ok")>>
\* the handshake fails with a network error
ScnHandshakeFails == <<EvMount, EvHandshake("neterr")>>
\* 401 on the handshake, redirect, callback message, second connect
ScnAuthRedirect ==
  <<EvMount, EvHandshake("unauthorized"), EvAuth("REDIRECT"),
    EvMessage("same", "mcp_auth_callback", "true"), EvClose("ok"),
    EvHandshake("ok"), EvTools("ok"), EvResources("ok"), EvPrompts("ok")>>
\* a ready session whose transport closes
ScnReadyClosed == Append(ScnReady, <<"TransportOnClose">>)

\* the optional lists are refused
ScnListsRefused ==
  <<EvMount, EvHandshake("ok"), EvTools("ok"), EvResources("fail"), EvPrompts("fail")>>
\* tools/list is refused
ScnToolsRefused == <<EvMount, EvHandshake("ok"), EvTools("neterr")>>
\* a method is called while the first handshake is awaited
ScnRequestEarly == <<EvMount, EvRequest("callTool")>>
ScnRetryEarly == <<EvMount, EvRetry>>
\* the storage of a ready session is cleared
ScnReadyCleared == Append(ScnReady, <<"ClearStorage">>)
\* preventAutoAuth: 401 on the handshake, the authorization URL is prepared
ScnPendingAuth == <<EvMount, EvHandshake("unauthorized"), <<"PrepareDone", "ok">>>>
\* a message of another origin arrives while the callback is awaited
ScnForeignMessage ==
  <<EvMount, EvHandshake("unauthorized"), EvAuth("REDIRECT"),
    EvMessage("other", "mcp_auth_callback", "true")>>
\* the callback reports a failed authorization
ScnAuthCallbackFails ==
  <<EvMount, EvHandshake("unauthorized"), EvAuth("REDIRECT"),
    EvMessage("same", "mcp_auth_callback", "false")>>
\* the auth operation authorizes without a redirect
ScnAuthorized == <<EvMount, EvHandshake("unauthorized"), EvAuth("AUTHORIZED")>>
\* preventAutoAuth: authenticate() from pending_auth, the auth operation redirects
ScnManualAuth ==
  <<EvMount, EvHandshake("unauthorized"), <<"PrepareDone", "ok">>, <<"Authenticate">>,
    <<"AuthenticateAuthDone", "REDIRECT">>>>
\* the transport cannot be constructed
ScnMount == <<EvMount>>
\* disconnect() during the first handshake
ScnMountDisconnected == <<EvMount, <<"Disconnect">>>>
\* a ready session is disconnected
ScnReadyDisconnected == Append(ScnReady, <<"Disconnect">>)

Scenarios ==
  {ScnReady, ScnHandshakeFails, ScnAuthRedirect, ScnReadyClosed, ScnListsRefused,
   ScnToolsRefused, ScnRequestEarly, ScnRetryEarly, ScnReadyCleared,
   ScnReadyDisconnected, ScnPendingAuth, ScnForeignMessage, ScnAuthCallbackFails,
   ScnAuthorized, ScnManualAuth, ScnMount,
   ScnMountDisconnected}

Track(sc, e) ==
  IF sc # Off /\ \E x \in Scenarios : IsPrefix(Append(sc, e), x)
  THEN Append(sc, e) ELSE Off

\* ------------------------------------------------------------------ actions
\* line 108: the last LogRetention entries are kept and the new one is added
retain(entries, entry) ==
  LET n == Len(entries)
      kept == IF n <= LogRetention THEN entries
              ELSE SubSeq(entries, n - LogRetention + 1, n)
  IN Append(kept, entry)

RECURSIVE retainAll(_, _, _)
\* the entries a handler run appended, one addLog call after the other
retainAll(entries, new, k) ==
  IF new = <<>> THEN entries
  ELSE retainAll(retain(entries, <<Head(new)[1], Head(new)[2], k + 1>>), Tail(new), k + 1)

AssignFields(r) ==
  /\ client' = r.client
  /\ transport' = r.transport
  /\ authProvider' = r.authProvider
  /\ connecting' = r.connecting
  /\ isMounted' = r.isMounted
  /\ connectAttempt' = r.connectAttempt
  /\ authTimeout' = r.authTimeout
  /\ staleAuthTimers' = r.staleAuthTimers
  /\ autoRetryTimer' = r.autoRetryTimer
  /\ reconnectTimers' = r.reconnectTimers
  /\ stateRef' = r.stateRef
  /\ current' = r.current
  /\ procs' = r.procs
  /\ wired' = r.wired
  /\ lastAuthUrl' = r.lastAuthUrl
  /\ connects' = r.connects
  /\ orphans' = r.orphans
  /\ scn' = Track(scn, r.ev)
  /\ trace' = IF Track(scn, r.ev) = Off THEN <<>> ELSE r.trace
  /\ UNCHANGED opts

Assign(r) == ~r.overflow /\ AssignFields(r)

\* a handler run, the log not followed
Commit(r) == Assign(r) /\ UNCHANGED logged

\* a handler run and the log it leaves
CommitLogged(r) ==
  /\ appended + Len(r.log) <= MaxAppends
  /\ Assign(r)
  /\ log' = retainAll(log, r.log, appended)
  /\ appended' = appended + Len(r.log)

\* the store at the resumption of the async function p
Resume(p, e) == [Begin(e) EXCEPT !.procs = @ (-) SetToBag({p})]

Suspended(fn, pc) == {p \in BagToSet(procs) : p.fn = fn /\ p.pc = pc}

OkFail == {"ok", "fail"}

\* the origins passed to createMcp as `allowedOrigins`; the option is not among
\* those createMcp reads (lines 46-62)
allowedOrigins == {"other"}

\* window messages: <<origin, data.type, data.success>>
Messages ==
  {<<"same", "mcp_auth_callback", "true">>, <<"same", "mcp_auth_callback", "false">>,
   <<"other", "mcp_auth_callback", "true">>, <<"same", "other", "true">>}

Mount ==
  /\ ~isMounted
  /\ Commit(start(Begin(EvMount)))

Unmount ==
  /\ isMounted
  /\ Commit(stop(Begin(<<"Unmount">>)))

CloseDone ==
  \E p \in Suspended("connect", "close") : \E ok \in OkFail :
    Commit(closeDone(Resume(p, EvClose(ok)), p, ok = "ok"))

HandshakeDone ==
  \E p \in Suspended("connect", "handshake") : \E r \in {"ok", "neterr", "unauthorized"} :
    Commit(handshakeDone(Resume(p, EvHandshake(r)), p, r))

ToolsDone ==
  \E p \in Suspended("connect", "tools") :
    \/ \E r \in ToolsResponses :
         Commit(requestResources(Resume(p, EvTools("ok")), [p EXCEPT !.tools = r]))
    \/ \E r \in {"neterr", "unauthorized"} :
         Commit(connectCatch(Resume(p, EvTools(r)), p, r))

ResourcesDone ==
  \E p \in Suspended("connect", "resources") :
    \/ \E r \in ResourcesResponses :
         Commit(requestPrompts(Resume(p, EvResources("ok")), [p EXCEPT !.res = r]))
    \/ Commit(requestPrompts(addLog(Resume(p, EvResources("fail")), "debug",
                                    "Server does not support resources/list method"), p))

PromptsDone ==
  \E p \in Suspended("connect", "prompts") :
    \/ \E r \in PromptsResponses :
         Commit(publishReady(Resume(p, EvPrompts("ok")), p, r))
    \/ Commit(publishReady(addLog(Resume(p, EvPrompts("fail")), "debug",
                                  "Server does not support prompts/list method"), p, <<>>))

PrepareDone ==
  \E p \in Suspended("connect", "prepare") : \E ok \in OkFail :
    Commit(prepareDone(providerPrepareAuthorizationUrl(Resume(p, <<"PrepareDone", ok>>), ok = "ok"),
                       p, ok = "ok"))

ConnectAuthDone ==
  \E p \in Suspended("connect", "auth") : \E r \in {"AUTHORIZED", "REDIRECT", "error"} :
    Commit(connectAuthDone(providerAuth(Resume(p, EvAuth(r)), r), p, r))

AuthenticateAuthDone ==
  \E p \in Suspended("authenticate", "auth") : \E r \in {"AUTHORIZED", "REDIRECT", "error"} :
    Commit(authenticateAuthDone(providerAuth(Resume(p, <<"AuthenticateAuthDone", r>>), r), r))

TransportOnError ==
  \E kind \in wired : Commit(onerror(Begin(<<"TransportOnError", kind>>), kind))

TransportOnClose ==
  /\ wired # {}
  /\ Commit(onclose(Begin(<<"TransportOnClose">>)))

AuthTimeoutFires ==
  /\ authTimeout # "none"
  /\ Commit(authTimeoutFired(Begin(<<"AuthTimeoutFires">>)))

Message ==
  /\ isMounted
  /\ \E m \in Messages :
       Commit(messageHandler(Begin(EvMessage(m[1], m[2], m[3])), m[1], m[2], m[3]))

Request ==
  \E method \in RequestMethods : Commit(request(Begin(EvRequest(method)), method))

Retry == Commit(retry(Begin(EvRetry)))

Authenticate == Commit(authenticate(Begin(<<"Authenticate">>)))

Disconnect == Commit(doDisconnect(Begin(<<"Disconnect">>), FALSE))

ClearStorage == Commit(clearStorage(Begin(<<"ClearStorage">>)))

Init ==
  /\ \E o \in Options :
       /\ url = o[1]
       /\ transportType = o[2]
       /\ preventAutoAuth = o[3]
       /\ autoRetry = o[4]
       /\ autoReconnect = o[5]
  /\ client = FALSE
  /\ transport = "null"
  /\ authProvider = FALSE
  /\ connecting = FALSE
  /\ isMounted = FALSE
  /\ connectAttempt = 0
  /\ authTimeout = "none"
  /\ staleAuthTimers = 0
  /\ autoRetryTimer = FALSE
  /\ reconnectTimers = 0
  /\ stateRef = "discovering"
  /\ current = initialValue
  /\ procs = EmptyBag
  /\ wired = {}
  /\ lastAuthUrl = FALSE
  /\ connects = 0
  /\ orphans = 0
  /\ scn = <<>>
  /\ trace = <<"discovering">>
  /\ log = <<>>
  /\ appended = 0

Next ==
  \/ Mount \/ Unmount
  \/ CloseDone \/ HandshakeDone \/ ToolsDone \/ ResourcesDone \/ PromptsDone
  \/ PrepareDone \/ ConnectAuthDone \/ AuthenticateAuthDone
  \/ TransportOnError \/ TransportOnClose \/ AuthTimeoutFires \/ Message
  \/ Request \/ Retry \/ Authenticate \/ Disconnect \/ ClearStorage

Spec == Init /\ [][Next]_vars

\* ----------------------------------------------------------- the transports
\* The store is subscribed, disconnected and unsubscribed and callback messages
\* arrive while the server answers nothing but the close of a transport.
CommitUpTo(r) ==
  /\ r.connects <= MaxSequences
  /\ AssignFields(r)
  /\ UNCHANGED logged

MountT ==
  /\ ~isMounted
  /\ CommitUpTo(start(Begin(EvMount)))

UnmountT ==
  /\ isMounted
  /\ CommitUpTo(stop(Begin(<<"Unmount">>)))

MessageT ==
  /\ isMounted
  /\ \E m \in Messages :
       CommitUpTo(messageHandler(Begin(EvMessage(m[1], m[2], m[3])), m[1], m[2], m[3]))

CloseDoneT ==
  \E p \in Suspended("connect", "close") : \E ok \in OkFail :
    CommitUpTo(closeDone(Resume(p, EvClose(ok)), p, ok = "ok"))

DisconnectT == CommitUpTo(doDisconnect(Begin(<<"Disconnect">>), FALSE))

NextTransports == MountT \/ UnmountT \/ MessageT \/ CloseDoneT \/ DisconnectT

SpecTransports == Init /\ [][NextTransports]_vars

\* ------------------------------------------------------- the published log
\* The store is subscribed and unsubscribed and retry() is called while the
\* server does not answer; every entry the handlers append goes through addLog.
MountLogged ==
  /\ ~isMounted
  /\ CommitLogged(start(Begin(EvMount)))

UnmountLogged ==
  /\ isMounted
  /\ CommitLogged(stop(Begin(<<"Unmount">>)))

RetryLogged == CommitLogged(retry(Begin(EvRetry)))

NextLog == MountLogged \/ UnmountLogged \/ RetryLogged

SpecLog == Init /\ [][NextLog]_vars

\* ------------------------------------------------------------------ claims
\* r leaves every field of the store as it is
SameStore(r) ==
  /\ r.client = client /\ r.transport = transport /\ r.authProvider = authProvider
  /\ r.connecting = connecting /\ r.isMounted = isMounted
  /\ r.connectAttempt = connectAttempt /\ r.authTimeout = authTimeout
  /\ r.staleAuthTimers = staleAuthTimers
  /\ r.autoRetryTimer = autoRetryTimer /\ r.reconnectTimers = reconnectTimers
  /\ r.stateRef = stateRef /\ r.current = current /\ r.procs = procs
  /\ r.wired = wired /\ r.lastAuthUrl = lastAuthUrl /\ r.connects = connects
  /\ r.orphans = orphans

Prefix(sc, k) == SubSeq(sc, 1, k)

\* C1 (as claimed): with the store mounted, the published state `ready` and the
\* client of the successful connect still in place, each of the five request
\* methods passes the readiness guard and issues exactly one request.
C1_ReadyMethodsRequest ==
  (isMounted /\ current.state = "ready" /\ client) =>
    \A method \in RequestMethods :
      LET r == request(Begin(EvRequest(method)), method) IN
        r.thrown = NoThrow /\ Len(r.requests) = 1

\* C2: while the published state is not `ready`, each of the five request methods
\* throws the not-ready error naming the published state, issues no request and
\* changes no field of the store.
C2_NotReadyRejected ==
  current.state # "ready" =>
    \A method \in RequestMethods :
      LET r == request(Begin(EvRequest(method)), method) IN
        /\ r.thrown = <<"MCP client is not ready", current.state>>
        /\ r.requests = <<>>
        /\ r.published = <<>>
        /\ r.started = 0
        /\ SameStore(r)

\* callTool has been called while the first handshake was awaited
C2_Witness ==
  /\ scn = ScnRequestEarly
  /\ current.state = "connecting"
  /\ request(Begin(EvRequest("callTool")), "callTool").thrown
       = <<"MCP client is not ready", "connecting">>

InSeq(x, seq) == \E i \in 1..Len(seq) : seq[i] = x

\* r publishes `ready` with the lists of the attempt p and the prompts x
PublishesLists(r, p, x) ==
  /\ r.published = <<"ready">>
  /\ r.current.state = "ready"
  /\ r.current.tools = p.tools
  /\ r.current.resources = p.res.resources
  /\ r.current.resourceTemplates = p.res.resourceTemplates
  /\ r.current.prompts = x

\* r publishes nothing
PublishesNothing(r) == r.published = <<>> /\ r.current = current

\* a failed tools/list, or a handshake after which tools/list cannot be sent,
\* ends the attempt p without `ready`
ToolsFailureNotReady ==
  /\ \A p \in Suspended("connect", "tools") : \A e \in {"neterr", "unauthorized"} :
       ~InSeq("ready", connectCatch(Resume(p, EvTools(e)), p, e).published)
  /\ \A p \in Suspended("connect", "handshake") :
       ~InSeq("ready", handshakeDone(Resume(p, EvHandshake("ok")), p, "ok").published)
  /\ scn = ScnToolsRefused => (current.state = "failed" /\ procs = EmptyBag)

C4_AutoFallsBackToSse ==
  (transportType = "auto" /\ scn = ScnHandshakeFails) =>
    /\ current.state = "connecting"
    /\ \E p \in BagToSet(procs) : p.fn = "connect" /\ p.kind = "sse"

\* C5: every connect() call makes one transport attempt, of the configured kind
\* (HTTP for 'auto'), or two, HTTP then SSE, and two only with transportType 'auto'.
C5_AtMostOneFallback ==
  \A p \in BagToSet(procs) :
    p.fn = "connect" =>
      \/ p.tried = <<IF transportType = "sse" THEN "sse" ELSE "http">>
      \/ transportType = "auto" /\ p.tried = <<"http", "sse">>

\* a handshake has failed and its connect() call has ended
C5_Witness ==
  /\ scn = ScnHandshakeFails
  /\ current.state = "failed"
  /\ procs = EmptyBag
  /\ ~connecting

C6Trace(k) ==
  IF k = 1 THEN <<"discovering", "connecting">>
  ELSE IF k \in {2, 3} THEN <<"discovering", "connecting", "authenticating">>
  ELSE IF k \in {4, 5}
  THEN <<"discovering", "connecting", "authenticating", "discovering", "connecting">>
  ELSE IF k \in {6, 7, 8}
  THEN <<"discovering", "connecting", "authenticating", "discovering", "connecting",
         "loading">>
  ELSE <<"discovering", "connecting", "authenticating", "discovering", "connecting",
         "loading", "ready">>

\* C6: with transportType 'http' and preventAutoAuth false, a 401 on the handshake
\* gives the states discovering, connecting, authenticating; after the auth
\* operation reported a redirect, the same-origin message
\* {type: 'mcp_auth_callback', success: true} gives discovering, connecting, and
\* the second handshake and the lists give loading, ready.
C6_AuthRedirectSequence ==
  (transportType = "http" /\ ~preventAutoAuth) =>
    \A k \in 1..Len(ScnAuthRedirect) :
      scn = Prefix(ScnAuthRedirect, k) =>
        /\ trace = C6Trace(k)
        /\ current.state = trace[Len(trace)]

C6_Witness ==
  /\ transportType = "http" /\ ~preventAutoAuth
  /\ scn = ScnAuthRedirect
  /\ current.state = "ready"

\* C7 (as claimed): the transport of a ready session closes with autoReconnect
\* enabled: the state is `connecting` and a reconnect is scheduled.
C7_ReconnectsOnClose ==
  (autoReconnect /\ scn = ScnReadyClosed) =>
    current.state = "connecting" /\ reconnectTimers = 1

\* C8 (as claimed): with autoRetry enabled, a connect attempt that ended in
\* `failed` has an auto-retry timer pending.
C8_AutoRetryScheduled ==
  (autoRetry /\ isMounted /\ connectAttempt > 0 /\ current.state = "failed"
     /\ procs = EmptyBag) =>
    autoRetryTimer

\* C9 (as claimed): retry() in the published state `failed` (mounted, no attempt
\* in flight) starts a connect attempt: the counter is incremented, error and
\* authUrl are cleared, `discovering` is published.
C9_RetryFromFailedConnects ==
  (isMounted /\ current.state = "failed" /\ ~connecting /\ procs = EmptyBag) =>
    LET r == retry(Begin(EvRetry)) IN
      /\ r.started = 1
      /\ r.connectAttempt = connectAttempt + 1
      /\ r.current.error = NoError /\ r.current.authUrl = "undefined"
      /\ InSeq("discovering", r.published)

\* C10: retry() in a published state other than `failed` changes no field of
\* the store, starts no connect attempt, issues no request and writes one
\* warning, which a mounted store appends to its log.
C10_RetryIgnored ==
  current.state # "failed" =>
    LET r == retry(Begin(EvRetry)) IN
      /\ SameStore(r)
      /\ r.started = 0 /\ r.published = <<>> /\ r.requests = <<>> /\ r.thrown = NoThrow
      /\ r.console = <<<<"warn", "Retry called but state is not 'failed'. Ignoring.">>>>
      /\ r.log = IF isMounted THEN r.console ELSE <<>>

\* retry() has been called while the first handshake was awaited
C10_Witness ==
  /\ scn = ScnRetryEarly
  /\ current.state = "connecting"
  /\ procs # EmptyBag

\* C11 (as claimed): authenticate() in the published state `ready` changes no
\* field of the store, starts no connect attempt, invokes no auth operation and
\* closes no transport.
C11_AuthenticateWhenReadyIgnored ==
  current.state = "ready" =>
    LET r == authenticate(Begin(<<"Authenticate">>)) IN
      /\ SameStore(r)
      /\ r.started = 0 /\ r.published = <<>> /\ r.requests = <<>>

\* C12 (as claimed): authenticate() in the published state `failed` (mounted, no
\* attempt in flight) starts a connect attempt and publishes `discovering`,
\* whatever led to `failed`.
C12_AuthenticateWhenFailedRetries ==
  (isMounted /\ current.state = "failed" /\ ~connecting /\ procs = EmptyBag) =>
    LET r == authenticate(Begin(<<"Authenticate">>)) IN
      /\ r.started = 1
      /\ r.connectAttempt = connectAttempt + 1
      /\ InSeq("discovering", r.published)

\* the handler run that gave r tore the session down
TornDown(r) ==
  /\ ~r.client /\ r.transport = "null"
  /\ ~r.connecting /\ r.authTimeout = "none"
  /\ r.closes = IF transport = "null" THEN 0 ELSE 1

\* C13 (as claimed): with an authorization provider, clearStorage() clears the
\* provider's storage and authUrl and disconnects: the published state is
\* `discovering` and tools, resources, resourceTemplates and prompts are empty.
C13_ClearStorageResets ==
  authProvider =>
    LET r == clearStorage(Begin(<<"ClearStorage">>)) IN
      /\ ~r.lastAuthUrl
      /\ TornDown(r)
      /\ r.current = initialValue

\* C13 (amended): as claimed in a mounted store; in an unmounted store the
\* storage and authUrl are cleared and the session is torn down, and the
\* published state and lists are left as they were.  Without a provider
\* clearStorage() only logs a warning.
C13_ClearStorageResetsWhileMounted ==
  LET r == clearStorage(Begin(<<"ClearStorage">>)) IN
    /\ authProvider =>
         /\ ~r.lastAuthUrl
         /\ TornDown(r)
         /\ IF isMounted
            THEN r.current = initialValue /\ r.published = <<"discovering">>
            ELSE r.current = [current EXCEPT !.authUrl = "undefined"] /\ r.published = <<>>
    /\ ~authProvider =>
         /\ SameStore(r)
         /\ r.console = <<<<"warn", "Auth provider not initialized, cannot clear storage.">>>>
    /\ scn = ScnReadyCleared => (current = initialValue /\ ~client /\ transport = "null")

\* the storage of a ready session has been cleared
C13_Witness ==
  /\ scn = ScnReadyCleared
  /\ current = initialValue
  /\ ~client /\ ~lastAuthUrl

\* C14: disconnect() in a mounted store releases the in-flight flag, cancels the
\* auth timeout, sets client and transport to null, calls close() on the former
\* transport (a rejected close() is only logged), and publishes `discovering`
\* with empty tools, resources, resourceTemplates and prompts and with error and
\* authUrl undefined.
C14_DisconnectResets ==
  /\ isMounted =>
       LET r == doDisconnect(Begin(<<"Disconnect">>), FALSE)
           c == doDisconnectClosed([r EXCEPT !.console = <<>>, !.log = <<>>], FALSE, FALSE)
       IN /\ TornDown(r)
          /\ r.published = <<"discovering">>
          /\ r.current = initialValue
          /\ r.started = 0 /\ r.thrown = NoThrow
          /\ c.console = <<<<"warn", "Error closing transport:">>>>
          /\ c.thrown = NoThrow /\ c.current = r.current
  /\ scn = ScnReadyDisconnected => (current = initialValue /\ ~client /\ transport = "null")

\* a ready session has been disconnected
C14_Witness ==
  /\ scn = ScnReadyDisconnected
  /\ current = initialValue
  /\ ~client /\ transport = "null" /\ ~connecting

\* C15 (as claimed): the published log never holds more than 100 entries, and
\* its entries are the most recently appended ones, in the order of the appends.
C15_LogRetention ==
  /\ Len(log) <= LogRetention
  /\ \A i \in 1..Len(log) : log[i][3] = appended - Len(log) + i

AuthResults == {"AUTHORIZED", "REDIRECT", "error"}

\* callTool() after its tools/call request was rejected as unauthorized and the
\* re-authentication ended with r
ToolCallReauthenticated(r) ==
  LET a == callToolCatch(Begin(EvRequest("callTool")), "unauthorized")
      p == Proc("callTool", "auth", "none", <<>>)
  IN callToolAuthDone(providerAuth([a EXCEPT !.procs = @ (-) SetToBag({p})], r), r)

\* C16 (as claimed): in a ready session callTool() issues its request; when the
\* request is rejected as unauthorized, whatever the re-authentication gives
\* (authorized, redirect, failure) the request is not issued again and the call
\* is rejected with the error of the request.
C16_ToolCallRejectsAfterReauth ==
  (isMounted /\ current.state = "ready" /\ client /\ authProvider) =>
    /\ request(Begin(EvRequest("callTool")), "callTool").requests = <<"callTool">>
    /\ \A r \in AuthResults :
         /\ ToolCallReauthenticated(r).thrown = <<"tools/call failed", "unauthorized">>
         /\ ToolCallReauthenticated(r).requests = <<>>

\* the attempt p goes on to prepareAuthorizationUrl: `pending_auth` is published,
\* no auth operation is started and no auth timeout is armed
GoesToPendingAuth(r, p) ==
  /\ r.published = <<"pending_auth">>
  /\ r.current.state = "pending_auth"
  /\ r.procs = (procs (-) SetToBag({p})) (+) SetToBag({[p EXCEPT !.pc = "prepare"]})
  /\ r.authTimeout = authTimeout
  /\ r.started = 0

\* with preventAutoAuth, an unauthorized handshake or tools/list goes to
\* `pending_auth`, and the prepared URL is published with the flag released
PendingAuthPrepared ==
  /\ \A p \in Suspended("connect", "handshake") :
       GoesToPendingAuth(handshakeDone(Resume(p, EvHandshake("unauthorized")), p, "unauthorized"), p)
  /\ \A p \in Suspended("connect", "tools") :
       GoesToPendingAuth(connectCatch(Resume(p, EvTools("unauthorized")), p, "unauthorized"), p)
  /\ \A p \in Suspended("connect", "prepare") :
       LET r == prepareDone(providerPrepareAuthorizationUrl(Resume(p, <<"PrepareDone", "ok">>), TRUE),
                            p, TRUE)
       IN /\ r.current = [current EXCEPT !.authUrl = "prepared"]
          /\ r.published = <<>>
          /\ ~r.connecting
          /\ r.procs = procs (-) SetToBag({p})
          /\ r.started = 0 /\ r.authTimeout = authTimeout
  /\ scn = ScnPendingAuth =>
       /\ current.state = "pending_auth" /\ current.authUrl = "prepared"
       /\ ~connecting /\ procs = EmptyBag /\ authTimeout = "none"

\* C17 (as claimed): with preventAutoAuth, an unauthorized handshake or
\* capability request (tools/list, resources/list, prompts/list) publishes
\* `pending_auth` and goes on to prepareAuthorizationUrl without an auth
\* operation; the prepared URL is published as authUrl and the in-flight flag
\* is released; a failed prepareAuthorizationUrl publishes `failed`.
C17_PendingAuthOnUnauthorized ==
  preventAutoAuth =>
    /\ PendingAuthPrepared
    /\ \A p \in Suspended("connect", "resources") :
         GoesToPendingAuth(requestPrompts(addLog(Resume(p, EvResources("fail")), "debug",
                                                 "Server does not support resources/list method"),
                                          p), p)
    /\ \A p \in Suspended("connect", "prepare") :
         LET r == prepareDone(Resume(p, <<"PrepareDone", "fail">>), p, FALSE)
         IN r.current.state = "failed" /\ ~r.connecting

\* C17 (amended): as claimed for an unauthorized handshake or tools/list; a
\* failed prepareAuthorizationUrl publishes `failed` in a mounted store and
\* nothing in an unmounted one, the flag being released in both.
C17_PendingAuthOnUnauthorizedToolsOrHandshake ==
  preventAutoAuth =>
    /\ PendingAuthPrepared
    /\ \A p \in Suspended("connect", "prepare") :
         LET r == prepareDone(Resume(p, <<"PrepareDone", "fail">>), p, FALSE)
         IN /\ ~r.connecting
            /\ r.procs = procs (-) SetToBag({p})
            /\ r.started = 0
            /\ IF isMounted
               THEN r.current.state = "failed" /\ r.published = <<"failed">>
                    /\ r.current.error = Err("Failed to prepare authorization URL", "none")
               ELSE r.current = current /\ r.published = <<>>

\* the URL has been prepared after a 401 on the handshake
C17_Witness ==
  /\ preventAutoAuth
  /\ scn = ScnPendingAuth
  /\ current.state = "pending_auth" /\ current.authUrl = "prepared"

\* C18 (as claimed): an auth timeout is pending whenever the published state is
\* `authenticating` after an entry made by the connect attempt or by
\* authenticate(); when it elapses in that state (mounted), `failed` is published
\* with the timeout error.
C18_AuthTimeoutFails ==
  /\ \A p \in Suspended("connect", "handshake") :
       ~preventAutoAuth =>
         handshakeDone(Resume(p, EvHandshake("unauthorized")), p, "unauthorized").authTimeout # "none"
  /\ stateRef = "pending_auth" =>
       authenticate(Begin(<<"Authenticate">>)).authTimeout # "none"
  /\ (isMounted /\ current.state = "authenticating" /\ authTimeout # "none") =>
       LET r == authTimeoutFired(Begin(<<"AuthTimeoutFires">>)) IN
         /\ r.current.state = "failed"
         /\ r.current.error = Err("Authentication timed out. Please try again.", "none")

\* C19: a window message of another origin than the page's is ignored whatever
\* its payload: the handler changes no field of the store, publishes and logs
\* nothing and starts no connect attempt, so that a run with such messages
\* passes through the same states as the run without them.
C19_ForeignMessageIgnored ==
  /\ \A type \in {"mcp_auth_callback", "other"} : \A success \in {"true", "false"} :
       LET r == messageHandler(Begin(EvMessage("other", type, success)), "other", type, success)
       IN /\ SameStore(r)
          /\ r.published = <<>> /\ r.console = <<>> /\ r.log = <<>>
          /\ r.started = 0 /\ r.requests = <<>> /\ r.closes = 0 /\ r.thrown = NoThrow
          /\ r.trace = trace
  /\ scn = ScnForeignMessage =>
       /\ current.state = "authenticating" /\ authTimeout = "fail"
       /\ connectAttempt = 1 /\ procs = EmptyBag

\* a message of another origin has arrived while the callback was awaited
C19_Witness ==
  /\ scn = ScnForeignMessage
  /\ current.state = "authenticating"
  /\ authTimeout = "fail"

\* C20 (as claimed): an `mcp_auth_callback` message whose origin is in
\* allowedOrigins is handled like the same message of the page's own origin:
\* success restarts connect, failure publishes `failed`.
C20_AllowedOriginAccepted ==
  isMounted =>
    \A origin \in allowedOrigins : \A success \in {"true", "false"} :
      LET a == messageHandler(Begin(EvMessage(origin, "mcp_auth_callback", success)),
                              origin, "mcp_auth_callback", success)
          b == messageHandler(Begin(EvMessage("same", "mcp_auth_callback", success)),
                              "same", "mcp_auth_callback", success)
      IN /\ a.current = b.current
         /\ a.published = b.published
         /\ a.started = b.started
         /\ a.authTimeout = b.authTimeout

\* the connect sequences suspended at an await
ConnectSequences == {p \in BagToSet(procs) : p.fn = "connect"}

\* C21 (as claimed): at most one connect sequence is executing at any time, and
\* a connect() call made while the in-flight flag is set changes nothing.
C21_SingleConnectSequence ==
  /\ \A p \in ConnectSequences : CopiesIn(p, procs) = 1
  /\ Cardinality(ConnectSequences) <= 1
  /\ connecting =>
       LET r == connect(Begin(<<"connect">>)) IN
         SameStore(r) /\ r.started = 0 /\ r.published = <<>>

\* transports created whose close() has not been called
LiveTransports == orphans + (IF transport = "open" THEN 1 ELSE 0)

\* C22 (as claimed): at most one transport that was created and not closed
\* exists at any time.
C22_OneLiveTransport == LiveTransports <= 1

FirstKind == IF transportType = "sse" THEN "sse" ELSE "http"

\* C23: in the published state `authenticating` (mounted), the same-origin
\* message {type: 'mcp_auth_callback', success: false} cancels the auth timeout,
\* publishes `failed` with the callback's error, releases the in-flight flag and
\* starts no connect attempt.
C23_CallbackFailureFails ==
  /\ (isMounted /\ current.state = "authenticating") =>
       LET r == messageHandler(Begin(EvMessage("same", "mcp_auth_callback", "false")),
                               "same", "mcp_auth_callback", "false")
       IN /\ r.authTimeout = "none"
          /\ r.published = <<"failed">>
          /\ r.current.state = "failed"
          /\ r.current.error = Err("Authentication failed in callback", "none")
          /\ ~r.connecting
          /\ r.started = 0 /\ r.connectAttempt = connectAttempt /\ r.procs = procs
  /\ scn = ScnAuthCallbackFails =>
       /\ current.state = "failed" /\ authTimeout = "none"
       /\ ~connecting /\ connectAttempt = 1 /\ procs = EmptyBag

\* the callback has reported a failed authorization
C23_Witness ==
  /\ scn = ScnAuthCallbackFails
  /\ current.state = "failed"
  /\ current.error = Err("Authentication failed in callback", "none")

\* C24: in a mounted store, when the auth operation of a connect sequence
\* resolves AUTHORIZED, the auth timeout is cancelled and a connect attempt
\* starts at once: the counter is incremented, `discovering` is published and
\* the attempt begins with the configured transport kind (HTTP for 'auto').
C24_AuthorizedReconnects ==
  /\ isMounted =>
       \A p \in Suspended("connect", "auth") :
         LET r == connectAuthDone(providerAuth(Resume(p, EvAuth("AUTHORIZED")), "AUTHORIZED"),
                                  p, "AUTHORIZED")
         IN /\ r.authTimeout = "none"
            /\ r.started = 1
            /\ r.connectAttempt = connectAttempt + 1
            /\ r.published = <<"discovering", "connecting">>
            /\ \E pc \in {"close", "handshake"} :
                 r.procs = (procs (-) SetToBag({p}))
                             (+) SetToBag({Proc("connect", pc, FirstKind, <<FirstKind>>)})
  /\ scn = ScnAuthorized =>
       /\ current.state = "connecting" /\ connectAttempt = 2
       /\ authTimeout = "none"
       /\ trace = <<"discovering", "connecting", "authenticating", "discovering", "connecting">>

\* the auth operation has authorized and the second attempt is under way
C24_Witness ==
  /\ scn = ScnAuthorized
  /\ connectAttempt = 2
  /\ current.state = "connecting"

\* authenticate() in pending_auth publishes `authenticating`, arms the auth
\* timeout and invokes the auth operation once
AuthenticateStartsAuth ==
  current.state = "pending_auth" =>
    LET r == authenticate(Begin(<<"Authenticate">>)) IN
      /\ r.published = <<"authenticating">>
      /\ r.current.state = "authenticating"
      /\ r.authTimeout # "none"
      /\ r.procs = procs (+) SetToBag({Proc("authenticate", "auth", "none", <<>>)})
      /\ r.started = 0

\* the auth operation of authenticate() has answered: AUTHORIZED starts a
\* connect attempt, REDIRECT changes nothing, an error publishes `failed` with
\* the auth timeout cancelled
AuthenticateResultHandled ==
  \A p \in Suspended("authenticate", "auth") :
    LET done(x) == authenticateAuthDone(
                     providerAuth(Resume(p, <<"AuthenticateAuthDone", x>>), x), x)
    IN /\ done("AUTHORIZED").started = 1
       /\ done("AUTHORIZED").connectAttempt = connectAttempt + 1
       /\ done("AUTHORIZED").published = <<"discovering", "connecting">>
       /\ done("AUTHORIZED").authTimeout = "none"
       /\ done("REDIRECT").current = current
       /\ done("REDIRECT").published = <<>>
       /\ done("REDIRECT").started = 0
       /\ done("REDIRECT").authTimeout = authTimeout
       /\ done("error").published = <<"failed">>
       /\ done("error").current.error = Err("Manual authentication failed", "none")
       /\ done("error").authTimeout = "none"
       /\ done("error").started = 0

\* C25 (as claimed): authenticate() in the published state `pending_auth`
\* publishes `authenticating`, arms the auth timeout and invokes the auth
\* operation once; an AUTHORIZED result starts a connect attempt, a REDIRECT
\* result leaves the state as it is and an error publishes `failed` with the
\* auth timeout cancelled.
C25_AuthenticateFromPendingAuth ==
  /\ AuthenticateStartsAuth
  /\ AuthenticateResultHandled

\* C25 (amended): as claimed while the store is mounted when the auth operation
\* answers; in an unmounted store the answer changes nothing.
C25_AuthenticateFromPendingAuthWhileMounted ==
  /\ AuthenticateStartsAuth
  /\ isMounted => AuthenticateResultHandled
  /\ ~isMounted =>
       \A p \in Suspended("authenticate", "auth") : \A x \in AuthResults :
         LET r == authenticateAuthDone(
                    providerAuth(Resume(p, <<"AuthenticateAuthDone", x>>), x), x)
         IN r.current = current /\ r.published = <<>> /\ r.started = 0
            /\ r.connecting = connecting
  /\ scn = ScnManualAuth =>
       current.state = "authenticating" /\ authTimeout = "noop" /\ procs = EmptyBag

\* authenticate() was called in pending_auth and the auth operation redirected
C25_Witness ==
  /\ scn = ScnManualAuth
  /\ current.state = "authenticating"
  /\ authTimeout = "noop"

\* C26 (as claimed): the transport's onclose fires in a mounted store with no
\* connect in flight and no reconnect to make (autoReconnect off, or the
\* published state is not `ready`): a published state of `failed` or
\* `authenticating` is left as it is together with the error; any other state is
\* replaced by `failed` with the error 'Connection closed unexpectedly.'.
C26_UnexpectedCloseFails ==
  (isMounted /\ ~connecting /\ wired # {}
     /\ (~autoReconnect \/ current.state # "ready")) =>
    LET r == onclose(Begin(<<"TransportOnClose">>)) IN
      IF current.state \in {"failed", "authenticating"}
      THEN r.current = current /\ r.published = <<>>
      ELSE /\ r.current.state = "failed"
           /\ r.current.error = Err("Connection closed unexpectedly.", "none")

\* the attempt p ended at once: the flag is released, nothing is retried and
\* nothing is thrown
EndsAttempt(r, p) ==
  /\ ~r.connecting
  /\ r.procs = procs (-) SetToBag({p})
  /\ r.started = 0
  /\ r.thrown = NoThrow

\* `failed` is published with an error naming the failure and the kind
PublishesFailure(r, tag, kind) ==
  /\ r.published = <<"failed">>
  /\ r.current.state = "failed"
  /\ r.current.error = Err(tag, kind)

\* a transport that cannot be constructed fails the attempt of a mounted store
ConstructionFailureFails ==
  /\ (url = "malformed" /\ ~isMounted) =>
       LET r == start(Begin(EvMount)) IN
         /\ r.current.state = "failed"
         /\ r.current.error = Err("Failed to create transport", FirstKind)
         /\ ~r.connecting /\ r.procs = procs /\ r.thrown = NoThrow
  /\ (url = "malformed" /\ scn = ScnMount) =>
       current.state = "failed" /\ ~connecting /\ procs = EmptyBag

C28_RequestErrorPropagates ==
  (isMounted /\ current.state = "ready" /\ client) =>
    \A method \in RequestMethods :
      /\ request(Begin(EvRequest(method)), method).requests = <<method>>
      /\ LET r == requestCatch(Begin(EvRequest(method)), method, "neterr") IN
           /\ SameStore(r)
           /\ r.published = <<>>
           /\ r.thrown # NoThrow /\ r.thrown[2] = "neterr"

\* the stores left by each answer to a pending await that can arrive in the
\* current state
Answers ==
  {handshakeDone(Resume(p, EvHandshake(x)), p, x) :
     p \in Suspended("connect", "handshake"), x \in {"ok", "neterr", "unauthorized"}}
  \cup {requestResources(Resume(p, EvTools("ok")), [p EXCEPT !.tools = x]) :
          p \in Suspended("connect", "tools"), x \in ToolsResponses}
  \cup {connectCatch(Resume(p, EvTools(x)), p, x) :
          p \in Suspended("connect", "tools"), x \in {"neterr", "unauthorized"}}
  \cup {requestPrompts(Resume(p, EvResources("ok")), [p EXCEPT !.res = x]) :
          p \in Suspended("connect", "resources"), x \in ResourcesResponses}
  \cup {publishReady(Resume(p, EvPrompts("ok")), p, x) :
          p \in Suspended("connect", "prompts"), x \in PromptsResponses}
  \cup {requestPrompts(addLog(Resume(p, EvResources("fail")), "debug",
                               "Server does not support resources/list method"), p) :
          p \in Suspended("connect", "resources")}
  \cup {publishReady(addLog(Resume(p, EvPrompts("fail")), "debug",
                             "Server does not support prompts/list method"), p, <<>>) :
          p \in Suspended("connect", "prompts")}
  \cup {closeDone(Resume(p, EvClose(x)), p, x = "ok") :
          p \in Suspended("connect", "close"), x \in OkFail}
  \cup {prepareDone(providerPrepareAuthorizationUrl(Resume(p, <<"PrepareDone", x>>), x = "ok"),
                    p, x = "ok") :
          p \in Suspended("connect", "prepare"), x \in OkFail}
  \cup {connectAuthDone(providerAuth(Resume(p, EvAuth(x)), x), p, x) :
          p \in Suspended("connect", "auth"), x \in AuthResults}
  \cup {authenticateAuthDone(providerAuth(Resume(p, <<"AuthenticateAuthDone", x>>), x), x) :
          p \in Suspended("authenticate", "auth"), x \in AuthResults}

\* the stores left by each asynchronous completion that can arrive in the
\* current state: the answers to the pending awaits, the transport callbacks
\* and the auth timer
Completions ==
  Answers
  \cup {onerror(Begin(<<"TransportOnError", kind>>), kind) : kind \in wired}
  \cup {onclose(Begin(<<"TransportOnClose">>)) : kind \in wired}
  \cup {authTimeoutFired(Begin(<<"AuthTimeoutFires">>)) : x \in {authTimeout} \ {"none"}}

\* C29 (as claimed): in an unmounted store no asynchronous completion changes
\* the snapshot (state, lists, error, log) or starts a connect attempt.
C29_UnmountedCompletionsDropped ==
  ~isMounted =>
    \A r \in Completions :
      /\ r.current = current
      /\ r.published = <<>> /\ r.log = <<>>
      /\ r.started = 0

\* C30 (as claimed): after disconnect() during the first handshake, no
\* asynchronous completion changes the published state `discovering` or the
\* empty lists, or starts a connect attempt.
C30_DisconnectedStaysDiscovering ==
  scn = ScnMountDisconnected =>
    /\ current = initialValue
    /\ \A r \in Completions :
         /\ r.current = initialValue
         /\ r.started = 0

C32_FailedIsTerminal ==
  current.state = "failed" =>
    \A r \in Completions :
      \A i \in 1..Len(r.published) :
        (\A j \in 1..(i - 1) : r.published[j] = "failed")
          => r.published[i] \in {"failed", "discovering"}

\* the stores left by each call the user of the store can make in the current
\* state: subscribing, unsubscribing, a window message and the methods
Calls ==
  {start(Begin(EvMount)) : x \in {isMounted} \ {TRUE}}
  \cup {stop(Begin(<<"Unmount">>)) : x \in {isMounted} \ {FALSE}}
  \cup {messageHandler(Begin(EvMessage(m[1], m[2], m[3])), m[1], m[2], m[3]) :
          m \in {x \in Messages : isMounted}}
  \cup {request(Begin(EvRequest(method)), method) : method \in RequestMethods}
  \cup {retry(Begin(EvRetry)), authenticate(Begin(<<"Authenticate">>)),
        doDisconnect(Begin(<<"Disconnect">>), FALSE),
        clearStorage(Begin(<<"ClearStorage">>))}

\* every run of a handler possible in the current state
Runs == Completions \cup Calls

\* C33 (as claimed): in every published snapshot whose state is `discovering`
\* the four lists are empty.
C33_DiscoveringHasEmptyLists ==
  \A r \in Runs :
    \A i \in 1..Len(r.snapshots) :
      r.snapshots[i].state = "discovering" =>
        /\ r.snapshots[i].tools = <<>> /\ r.snapshots[i].resources = <<>>
        /\ r.snapshots[i].resourceTemplates = <<>> /\ r.snapshots[i].prompts = <<>>

\* C34 (as claimed): an auth timer is pending only while the published state
\* is `authenticating`.
C34_AuthTimeoutOnlyWhileAuthenticating ==
  authTimeout # "none" => current.state = "authenticating"

\* C35 (as claimed): stateRef equals the state of the published snapshot.
C35_StateRefIsPublishedState ==
  stateRef = current.state

\* C36 (as claimed): whenever the published state is `ready`, the client is not
\* null and the referenced transport is one that was not closed.
C36_ReadyHasSession ==
  current.state = "ready" => client /\ transport = "open"

\* C37 (as claimed): every published snapshot whose state is `failed` carries
\* an error, the intermediate snapshots of a handler run included.
C37_FailedCarriesError ==
  /\ current.state = "failed" => current.error # NoError
  /\ \A r \in Runs :
       \A i \in 1..Len(r.snapshots) :
         r.snapshots[i].state = "failed" => r.snapshots[i].error # NoError

\* C38 (as claimed): in a mounted store whose published state is not
\* `authenticating`, a same-origin mcp_auth_callback message leaves the
\* published state and the in-flight flag as they are and starts no connect
\* attempt.
C38_CallbackOnlyWhileAuthenticating ==
  (isMounted /\ current.state # "authenticating") =>
    \A success \in {"true", "false"} :
      LET r == messageHandler(Begin(EvMessage("same", "mcp_auth_callback", success)),
                              "same", "mcp_auth_callback", success)
      IN /\ r.published = <<>> /\ r.current.state = current.state
         /\ r.connecting = connecting
         /\ r.started = 0

\* ------------------------------------------------------- the collaborators
\* The store is subscribed and unsubscribed, callback messages arrive, and
\* every call the store awaits (close of a transport, handshake, list requests,
\* preparation of the authorization URL, auth) returns or throws; a pending
\* auth timer fires unless it is cleared first.
CommitAttempt(r) ==
  /\ r.connects <= MaxAttempts
  /\ AssignFields(r)
  /\ UNCHANGED logged

MountS ==
  /\ ~isMounted
  /\ CommitAttempt(start(Begin(EvMount)))

UnmountS ==
  /\ isMounted
  /\ CommitAttempt(stop(Begin(<<"Unmount">>)))

MessageS ==
  /\ isMounted
  /\ \E m \in Messages :
       CommitAttempt(messageHandler(Begin(EvMessage(m[1], m[2], m[3])), m[1], m[2], m[3]))

AnswerS == \E r \in Answers : CommitAttempt(r)

AuthTimeoutFiresS ==
  /\ authTimeout # "none"
  /\ \E r \in {authTimeoutFired(Begin(<<"AuthTimeoutFires">>))} : CommitAttempt(r)

TransportOnErrorS ==
  \E kind \in wired : CommitAttempt(onerror(Begin(<<"TransportOnError", kind>>), kind))

DisconnectS == CommitAttempt(doDisconnect(Begin(<<"Disconnect">>), FALSE))

AuthenticateS == CommitAttempt(authenticate(Begin(<<"Authenticate">>)))

NextSettles ==
  \/ MountS \/ UnmountS \/ MessageS \/ AnswerS \/ AuthTimeoutFiresS
  \/ TransportOnErrorS \/ DisconnectS \/ AuthenticateS

\* ENABLED <<AnswerS>>_vars as a state predicate: an answer always takes its
\* async function out of procs, so it changes vars
AnswerPending == \E r \in Answers : r.connects <= MaxAttempts

\* weak fairness of AnswerS, spelled out over AnswerPending, and of
\* AuthTimeoutFiresS
CollaboratorsReturn ==
  /\ ([]<>~AnswerPending) \/ ([]<><<AnswerS>>_vars)
  /\ WF_vars(AuthTimeoutFiresS)

SpecSettles == Init /\ [][NextSettles]_vars /\ CollaboratorsReturn

\* the states of an attempt under way, and those it settles in
Unsettled == {"discovering", "connecting", "loading"}
Settled == {"ready", "failed", "pending_auth", "authenticating"}

====
